---- MODULE Spec2Model ----
(***************************************************************************)
(* Model of bin/wrap_debug_prints.py: the line-oriented pass that wraps    *)
(* unguarded debugPrint calls in "if (kDebugMode) { ... }" blocks.         *)
(*                                                                         *)
(* A text is a sequence of lexemes.  The lexemes are the pieces of text    *)
(* the script can tell apart: a whitespace character, a parenthesis, a     *)
(* brace, the identifiers debugPrint / if / kDebugMode / assert, the line  *)
(* separator "\n" and "x" for any other character.  A line is a sequence   *)
(* of lexemes without "\n"; indices are 0-based as in the script, so the   *)
(* script's lines[k] is At(lines, k).                                      *)
(***************************************************************************)
EXTENDS Integers, Sequences, FiniteSets, TLC

VARIABLES
    content,          \* text read from the file (f.read())
    file,             \* text last written to the file
    writes,           \* number of f.write() calls made so far
    lines,            \* content.split('\n')
    modified_lines,   \* the output lines built by the pass
    i,                \* outer loop index
    j,                \* inner scan index
    indent,           \* indent_match.group(1) of the call being wrapped
    paren_count,      \* running '(' minus ')' of the call being wrapped
    debugprint_lines, \* lines of the call being wrapped
    pc,               \* position in wrap_debug_prints
    run,              \* number of the invocation of the script on the file
    firstClean,       \* history: did invocation 1 wrap only plain call sites
    hist              \* history: one record per outer loop iteration

vars == <<content, file, writes, lines, modified_lines, i, j, indent,
          paren_count, debugprint_lines, pc, run, firstClean, hist>>

----------------------------------------------------------------------------
(* Bounds *)

MaxLines == 3

MaxRuns == 2

----------------------------------------------------------------------------
(* Lexemes and the string primitives the script uses *)

Whitespace == {" ", "\t"}

At(ls, k) == ls[k + 1]

RECURSIVE CountOf(_, _)
CountOf(l, t) ==
    IF l = <<>> THEN 0
    ELSE (IF Head(l) = t THEN 1 ELSE 0) + CountOf(Tail(l), t)

\* fault: closing parentheses are not counted
BalanceOpenOnly(l) == CountOf(l, "(")

Balance(l) == CountOf(l, "(") - CountOf(l, ")")

RECURSIVE LStrip(_)
LStrip(l) ==
    IF l # <<>> /\ Head(l) \in Whitespace THEN LStrip(Tail(l)) ELSE l

RECURSIVE RStrip(_)
RStrip(l) ==
    IF l # <<>> /\ l[Len(l)] \in Whitespace
    THEN RStrip(SubSeq(l, 1, Len(l) - 1))
    ELSE l

Strip(l) == RStrip(LStrip(l))

StartsWith(l, p) == Len(l) >= Len(p) /\ SubSeq(l, 1, Len(p)) = p

GuardPrefix == <<"if", " ", "(", "kDebugMode", ")">>

AssertPrefix == <<"assert", "(">>

\* group(1) of ^(\s*)debugPrint\( : the greedy run of leading whitespace
Indent(l) == SubSeq(l, 1, Len(l) - Len(LStrip(l)))

\* re.match(r'^(\s*)debugPrint\(', line) succeeds
Match(l) == StartsWith(LStrip(l), <<"debugPrint", "(">>)

\* fault: the previous line is compared without strip()
AlreadyWrappedNoStrip(ls, k) ==
    /\ k > 0
    /\ \/ StartsWith(At(ls, k - 1), GuardPrefix)
       \/ StartsWith(At(ls, k - 1), AssertPrefix)

\* fault: the test i > 0 is missing, so lines[-1] reads the last line
AlreadyWrappedWrapAround(ls, k) ==
    LET prev == At(ls, (k - 1) % Len(ls)) IN
    \/ StartsWith(Strip(prev), GuardPrefix)
    \/ StartsWith(Strip(prev), AssertPrefix)

AlreadyWrapped(ls, k) ==
    /\ k > 0
    /\ \/ StartsWith(Strip(At(ls, k - 1)), GuardPrefix)
       \/ StartsWith(Strip(At(ls, k - 1)), AssertPrefix)

\* fault: the guard is written as "if(kDebugMode) {"
GuardOpenNoSpace(ind) == ind \o <<"if", "(", "kDebugMode", ")", " ", "{">>

GuardOpen(ind) == ind \o <<"if", " ", "(", "kDebugMode", ")", " ", "{">>

\* fault: one space of extra indentation instead of two
IndentedOneSpace(l) == <<" ">> \o l

Indented(l) == <<" ", " ">> \o l

\* fault: the closing brace is written without the indentation
GuardCloseNoIndent(ind) == <<"}">>

GuardClose(ind) == ind \o <<"}">>

RECURSIVE SplitAcc(_, _, _)
SplitAcc(c, cur, acc) ==
    IF c = <<>> THEN Append(acc, cur)
    ELSE IF Head(c) = "\n" THEN SplitAcc(Tail(c), <<>>, Append(acc, cur))
    ELSE SplitAcc(Tail(c), Append(cur, Head(c)), acc)

\* fault: splitlines() instead of split('\n'): no empty last line
SplitLines(c) ==
    LET r == SplitAcc(c, <<>>, <<>>) IN
    IF r[Len(r)] = <<>> THEN SubSeq(r, 1, Len(r) - 1) ELSE r

Split(c) == SplitAcc(c, <<>>, <<>>)

RECURSIVE Join(_)
Join(ls) ==
    IF ls = <<>> THEN <<>>
    ELSE IF Len(ls) = 1 THEN ls[1]
    ELSE ls[1] \o <<"\n">> \o Join(Tail(ls))

----------------------------------------------------------------------------
(* The files the script is run on *)

SampleLines ==
    { <<>>,
      <<"x", " ", "debugPrint", "(", "x", ")">>,
      <<" ", " ", "debugPrint", "(", "x", ")", "x">>,
      <<"debugPrint", "(">>,
      <<"\t", "debugPrint", "(", "x", ")", ")">>,
      <<"x", ")", "x">>,
      <<"x", ")", ")">>,
      <<"\t", "if", " ", "(", "kDebugMode", ")", " ", "{">>,
      <<" ", " ", "assert", "(", "x", ")", ")">>,
      <<"}">> }

InputFiles ==
    { Join(ls) : ls \in UNION { [1..n -> SampleLines] : n \in 1..MaxLines } }

----------------------------------------------------------------------------
(* Vocabulary of the properties, stated on the text and the history *)

Max(S) == CHOOSE n \in S : \A m \in S : m <= n

\* number of leading whitespace lexemes of l
LeadWs(l) ==
    Max({n \in 0..Len(l) : \A k \in 1..n : l[k] \in {" ", "\t"}})

\* optional leading whitespace, then debugPrint, then "("
IsCallStart(l) ==
    /\ Len(l) >= LeadWs(l) + 2
    /\ l[LeadWs(l) + 1] = "debugPrint"
    /\ l[LeadWs(l) + 2] = "("

\* l after its leading whitespace begins with the lexemes p
BeginsTrimmed(l, p) ==
    /\ Len(l) >= LeadWs(l) + Len(p)
    /\ \A k \in 1..Len(p) : l[LeadWs(l) + k] = p[k]

\* trimmed, l starts with "if (kDebugMode)" or "assert("
IsGuardLine(l) ==
    \/ BeginsTrimmed(l, <<"if", " ", "(", "kDebugMode", ")">>)
    \/ BeginsTrimmed(l, <<"assert", "(">>)

ParenBalance(l) ==
    Cardinality({k \in 1..Len(l) : l[k] = "("})
      - Cardinality({k \in 1..Len(l) : l[k] = ")"})

\* running balance of input lines a..b (0-based, inclusive)
RECURSIVE CumBalance(_, _)
CumBalance(a, b) ==
    IF b < a \/ b >= Len(lines) THEN 0
    ELSE ParenBalance(lines[b + 1]) + CumBalance(a, b - 1)

\* output line p (1-based), or a line no pass emits when there is none
OutLine(p) ==
    IF p \in 1..Len(modified_lines) THEN modified_lines[p] ELSE <<"\n">>

InLine(k) == IF k \in 0..(Len(lines) - 1) THEN lines[k + 1] ELSE <<"\n">>

OpeningOf(l) ==
    SubSeq(l, 1, LeadWs(l)) \o <<"if", " ", "(", "kDebugMode", ")", " ", "{">>

ClosingOf(l) == SubSeq(l, 1, LeadWs(l)) \o <<"}">>

Wraps == {k \in 1..Len(hist) : hist[k].kind = "wrap"}

\* the iteration of hist[k] emitted a whole guard block around lines i..j-1
Enclosed(h) ==
    /\ OutLine(h.o + 1) = OpeningOf(InLine(h.i))
    /\ \A m \in 1..(h.j - h.i) :
          OutLine(h.o + 1 + m) = <<" ", " ">> \o InLine(h.i + m - 1)
    /\ OutLine(h.o + 2 + (h.j - h.i)) = ClosingOf(InLine(h.i))

\* no continuation line of a wrapped call site is itself a call start or,
\* trimmed, starts with "if (kDebugMode)" or "assert("
PlainSites ==
    \A k \in Wraps :
      \A m \in (hist[k].i + 1)..(hist[k].j - 1) :
        ~IsCallStart(InLine(m)) /\ ~IsGuardLine(InLine(m))

\* number of output lines emitted by the iteration of hist[k]
Emitted(k) ==
    (IF k < Len(hist) THEN hist[k + 1].o ELSE Len(modified_lines)) - hist[k].o

\* the pass resumed at input line hist[k].j after the iteration of hist[k]
Resumed(k) == IF k < Len(hist) THEN hist[k + 1].i = hist[k].j ELSE i = hist[k].j

Min(S) == CHOOSE n \in S : \A m \in S : n <= m

----------------------------------------------------------------------------
(* State machine *)

Init ==
    /\ file \in InputFiles
    /\ content = <<>>
    /\ writes = 0
    /\ lines = <<>>
    /\ modified_lines = <<>>
    /\ i = 0
    /\ j = 0
    /\ indent = <<>>
    /\ paren_count = 0
    /\ debugprint_lines = <<>>
    /\ pc = "read"
    /\ run = 1
    /\ firstClean = TRUE
    /\ hist = <<>>

ReadFile ==
    /\ pc = "read"
    /\ content' = file
    /\ lines' = Split(file)
    /\ modified_lines' = <<>>
    /\ i' = 0
    /\ hist' = <<>>
    /\ pc' = "loop"
    /\ UNCHANGED <<file, writes, j, indent, paren_count, debugprint_lines,
                   run, firstClean>>

\* fault: the copy branch advances the index by 2
CopyLineSkip ==
    /\ pc = "loop"
    /\ i < Len(lines)
    /\ ~Match(At(lines, i))
    /\ modified_lines' = Append(modified_lines, At(lines, i))
    /\ i' = i + 2
    /\ hist' = Append(hist, [kind |-> "copy", i |-> i, j |-> i + 2,
                             o |-> Len(modified_lines)])
    /\ UNCHANGED <<content, file, writes, lines, j, indent, paren_count,
                   debugprint_lines, pc, run, firstClean>>

CopyLine ==
    /\ pc = "loop"
    /\ i < Len(lines)
    /\ ~Match(At(lines, i))
    /\ modified_lines' = Append(modified_lines, At(lines, i))
    /\ i' = i + 1
    /\ hist' = Append(hist, [kind |-> "copy", i |-> i, j |-> i + 1,
                             o |-> Len(modified_lines)])
    /\ UNCHANGED <<content, file, writes, lines, j, indent, paren_count,
                   debugprint_lines, pc, run, firstClean>>

KeepGuarded ==
    /\ pc = "loop"
    /\ i < Len(lines)
    /\ Match(At(lines, i))
    /\ AlreadyWrapped(lines, i)
    /\ indent' = Indent(At(lines, i))
    /\ modified_lines' = Append(modified_lines, At(lines, i))
    /\ i' = i + 1
    /\ hist' = Append(hist, [kind |-> "guarded", i |-> i, j |-> i + 1,
                             o |-> Len(modified_lines)])
    /\ UNCHANGED <<content, file, writes, lines, j, paren_count,
                   debugprint_lines, pc, run, firstClean>>

StartWrap ==
    /\ pc = "loop"
    /\ i < Len(lines)
    /\ Match(At(lines, i))
    /\ ~AlreadyWrapped(lines, i)
    /\ indent' = Indent(At(lines, i))
    /\ debugprint_lines' = <<At(lines, i)>>
    /\ paren_count' = Balance(At(lines, i))
    /\ j' = i + 1
    /\ pc' = "scan"
    /\ UNCHANGED <<content, file, writes, lines, modified_lines, i, run,
                   firstClean, hist>>

\* fault: the scan stops one line before the end of input
ScanMoreOffByOne == paren_count > 0 /\ j < Len(lines) - 1

\* while paren_count > 0 and j < len(lines)
ScanMore == paren_count > 0 /\ j < Len(lines)

ScanLine ==
    /\ pc = "scan"
    /\ ScanMore
    /\ debugprint_lines' = Append(debugprint_lines, At(lines, j))
    /\ paren_count' = paren_count + Balance(At(lines, j))
    /\ j' = j + 1
    /\ UNCHANGED <<content, file, writes, lines, modified_lines, i, indent,
                   pc, run, firstClean, hist>>

\* fault: the pass does not skip the lines it has wrapped (i += 1)
EmitWrapNoSkip ==
    /\ pc = "scan"
    /\ ~ScanMore
    /\ modified_lines' =
           modified_lines \o <<GuardOpen(indent)>>
             \o [k \in 1..Len(debugprint_lines) |-> Indented(debugprint_lines[k])]
             \o <<GuardClose(indent)>>
    /\ i' = i + 1
    /\ hist' = Append(hist, [kind |-> "wrap", i |-> i, j |-> j,
                             o |-> Len(modified_lines)])
    /\ pc' = "loop"
    /\ UNCHANGED <<content, file, writes, lines, j, indent, paren_count,
                   debugprint_lines, run, firstClean>>

EmitWrap ==
    /\ pc = "scan"
    /\ ~ScanMore
    /\ modified_lines' =
           modified_lines \o <<GuardOpen(indent)>>
             \o [k \in 1..Len(debugprint_lines) |-> Indented(debugprint_lines[k])]
             \o <<GuardClose(indent)>>
    /\ i' = j
    /\ hist' = Append(hist, [kind |-> "wrap", i |-> i, j |-> j,
                             o |-> Len(modified_lines)])
    /\ pc' = "loop"
    /\ UNCHANGED <<content, file, writes, lines, j, indent, paren_count,
                   debugprint_lines, run, firstClean>>

WriteBack ==
    /\ pc = "loop"
    /\ ~(i < Len(lines))
    /\ file' = Join(modified_lines)
    /\ writes' = writes + 1
    /\ pc' = "done"
    /\ UNCHANGED <<content, lines, modified_lines, i, j, indent, paren_count,
                   debugprint_lines, run, firstClean, hist>>

Next ==
    \/ ReadFile
    \/ CopyLine
    \/ KeepGuarded
    \/ StartWrap
    \/ ScanLine
    \/ EmitWrap
    \/ WriteBack

Spec == Init /\ [][Next]_vars

\* The script run again on the file it has just rewritten.
RunAgain ==
    /\ pc = "done"
    /\ run < MaxRuns
    /\ run' = run + 1
    /\ firstClean' = IF run = 1 THEN PlainSites ELSE firstClean
    /\ i' = 0
    /\ j' = 0
    /\ pc' = "read"
    /\ UNCHANGED <<content, file, writes, lines, modified_lines, indent,
                   paren_count, debugprint_lines, hist>>

NextRerun == Next \/ RunAgain

SpecRerun == Init /\ [][NextRerun]_vars

\* The pass is sequential code with no suspension point: it keeps running.
FairSpec == Spec /\ WF_vars(Next)

----------------------------------------------------------------------------
(* C1: deleting the inserted guard lines from the output and removing the  *)
(* two-space prefix of the lines between them gives back the input, line   *)
(* for line and in order, and the output has len(input) + 2k lines, k the  *)
(* number of call sites wrapped.                                           *)

Unindent(l) ==
    IF Len(l) >= 2 /\ l[1] = " " /\ l[2] = " " THEN SubSeq(l, 3, Len(l))
    ELSE <<"\n">> \o l

RECURSIVE Restored(_)
Restored(n) ==
    IF n = 0 THEN <<>>
    ELSE LET h == hist[n] IN
         Restored(n - 1) \o
           (IF h.kind = "wrap"
            THEN [m \in 1..(h.j - h.i) |-> Unindent(OutLine(h.o + 1 + m))]
            ELSE <<OutLine(h.o + 1)>>)

C1_RoundTrip ==
    pc = "done" =>
      /\ Restored(Len(hist)) = lines
      /\ Len(modified_lines) = Len(lines) + 2 * Cardinality(Wraps)
      /\ \A k \in Wraps :
            /\ OutLine(hist[k].o + 1) = OpeningOf(InLine(hist[k].i))
            /\ OutLine(hist[k].o + 2 + hist[k].j - hist[k].i)
                 = ClosingOf(InLine(hist[k].i))
      /\ \A k \in 1..Len(hist) :
            /\ hist[k].o = IF k = 1 THEN 0
                           ELSE hist[k - 1].o + (hist[k - 1].j - hist[k - 1].i)
                                + (IF hist[k - 1].kind = "wrap" THEN 2 ELSE 0)

C1_Witness ==
    /\ pc = "done"
    /\ Len(lines) = 3
    /\ \E k \in Wraps : hist[k].j - hist[k].i = 2
    /\ \E k \in 1..Len(hist) : hist[k].kind = "copy"
    /\ Restored(Len(hist)) = lines
    /\ Len(modified_lines) = 5

----------------------------------------------------------------------------
(* C2: when no input line matches the call-start pattern, the text written *)
(* back equals the text read, trailing newline or not.                     *)

NoCallStart == \A k \in 1..Len(lines) : ~IsCallStart(lines[k])

C2_NoCallsIdentity ==
    (pc = "done" /\ NoCallStart) => (file = content /\ modified_lines = lines)

C2_Witness ==
    /\ pc = "done"
    /\ NoCallStart
    /\ Len(lines) = 3
    /\ lines[3] = <<>>
    /\ lines[1] = <<"x", " ", "debugPrint", "(", "x", ")">>
    /\ lines[2] = <<"}">>
    /\ file = content
    /\ Len(content) = 9

----------------------------------------------------------------------------
(* C3: a single-line call (own balance zero) examined by the pass and not  *)
(* already guarded yields three consecutive output lines: I + "if          *)
(* (kDebugMode) {", two spaces + the line, I + "}", I its leading          *)
(* whitespace.                                                             *)

PrecededByGuard(k) == k > 0 /\ IsGuardLine(InLine(k - 1))

C3_SingleLineWrap ==
    \A k \in 1..Len(hist) :
      LET h == hist[k]
          l == InLine(h.i)
      IN (IsCallStart(l) /\ ParenBalance(l) = 0 /\ ~PrecededByGuard(h.i)) =>
           /\ OutLine(h.o + 1) = OpeningOf(l)
           /\ OutLine(h.o + 2) = <<" ", " ">> \o l
           /\ OutLine(h.o + 3) = ClosingOf(l)
           /\ Len(modified_lines) >= h.o + 3

C3_Witness ==
    /\ pc = "done"
    /\ lines = << <<" ", " ", "debugPrint", "(", "x", ")", "x">> >>
    /\ modified_lines =
         << <<" ", " ", "if", " ", "(", "kDebugMode", ")", " ", "{">>,
            <<" ", " ", " ", " ", "debugPrint", "(", "x", ")", "x">>,
            <<" ", " ", "}">> >>

----------------------------------------------------------------------------
(* C4: for an unguarded call start at line i with positive own balance the *)
(* wrapped range runs up to and including the first line where the         *)
(* cumulative balance from line i reaches 0; exactly those lines are       *)
(* emitted, in order, each behind two spaces, between one guard-opening    *)
(* and one guard-closing line carrying the indentation of line i, and the  *)
(* pass resumes at the first line after the range.                         *)

ZeroAt(a) == {m \in a..(Len(lines) - 1) : CumBalance(a, m) = 0}

NonPositiveAt(a) == {m \in a..(Len(lines) - 1) : CumBalance(a, m) <= 0}

\* as claimed: the range ends at the first line where the balance is 0
C4_RangeEndsAtZero ==
    \A k \in Wraps :
      LET h == hist[k] IN
      (ParenBalance(InLine(h.i)) > 0 /\ ZeroAt(h.i) # {}) =>
        /\ h.j = Min(ZeroAt(h.i)) + 1
        /\ Enclosed(h)
        /\ Emitted(k) = (h.j - h.i) + 2
        /\ Resumed(k)

\* amended: the range ends at the first line where the balance is 0 or less
C4_RangeEndsAtNonPositive ==
    \A k \in Wraps :
      LET h == hist[k] IN
      (ParenBalance(InLine(h.i)) > 0 /\ NonPositiveAt(h.i) # {}) =>
        /\ h.j = Min(NonPositiveAt(h.i)) + 1
        /\ Enclosed(h)
        /\ Emitted(k) = (h.j - h.i) + 2
        /\ Resumed(k)

C4_Witness ==
    /\ pc = "done"
    /\ lines = << <<"debugPrint", "(">>, <<"x", ")", "x">>, <<"}">> >>
    /\ modified_lines =
         << <<"if", " ", "(", "kDebugMode", ")", " ", "{">>,
            <<" ", " ", "debugPrint", "(">>,
            <<" ", " ", "x", ")", "x">>,
            <<"}">>,
            <<"}">> >>
    /\ hist[1].kind = "wrap" /\ hist[1].j = 2
    /\ hist[2].kind = "copy" /\ hist[2].i = 2

----------------------------------------------------------------------------
(* C5: a call-start line examined by the pass is copied unchanged, with no *)
(* guard lines and the index advanced by 1, exactly when i > 0 and line    *)
(* i-1, trimmed, starts with "if (kDebugMode)" or "assert("; otherwise it  *)
(* is wrapped, whatever lines i-2 and earlier hold.                        *)

C5_GuardedIffPreviousLine ==
    \A k \in 1..Len(hist) :
      LET h == hist[k] IN
      IsCallStart(InLine(h.i)) =>
        IF PrecededByGuard(h.i)
        THEN /\ h.kind = "guarded"
             /\ OutLine(h.o + 1) = InLine(h.i)
             /\ Emitted(k) = 1
             /\ h.j = h.i + 1
             /\ Resumed(k)
        ELSE /\ h.kind = "wrap"
             /\ OutLine(h.o + 1) = OpeningOf(InLine(h.i))
             /\ Emitted(k) >= 3

C5_Witness ==
    /\ pc = "done"
    /\ lines = << <<"\t", "if", " ", "(", "kDebugMode", ")", " ", "{">>,
                  <<>>,
                  <<" ", " ", "debugPrint", "(", "x", ")", "x">> >>
    /\ hist[3].kind = "wrap"
    /\ Len(modified_lines) = 5

\* the copied side of C5: a call directly below a guard line is left alone
C5_WitnessCopied ==
    /\ pc = "done"
    /\ lines = << <<"\t", "if", " ", "(", "kDebugMode", ")", " ", "{">>,
                  <<" ", " ", "debugPrint", "(", "x", ")", "x">> >>
    /\ modified_lines = lines

----------------------------------------------------------------------------
(* C7: when the cumulative balance of an unguarded call start at line i    *)
(* never returns to zero on a later line, the call site is [i, len(lines)):*)
(* every remaining line is emitted behind two spaces inside one guard      *)
(* block, the guard-closing line is the last output line and no further    *)
(* guard is inserted.                                                      *)

RestInOneBlock(k) ==
    LET h == hist[k] IN
    /\ h.j = Len(lines)
    /\ Enclosed(h)
    /\ k = Len(hist)
    /\ Len(modified_lines) = h.o + 2 + (Len(lines) - h.i)
    /\ pc \in {"loop", "done"}

\* as claimed: the balance is never 0 again
C7_NeverZeroTakesRest ==
    \A k \in Wraps :
      (/\ ParenBalance(InLine(hist[k].i)) > 0
       /\ ZeroAt(hist[k].i) = {}) => RestInOneBlock(k)

\* amended: the balance stays positive
C7_StaysPositiveTakesRest ==
    \A k \in Wraps :
      (/\ ParenBalance(InLine(hist[k].i)) > 0
       /\ NonPositiveAt(hist[k].i) = {}) => RestInOneBlock(k)

C7_Witness ==
    /\ pc = "done"
    /\ lines = << <<"}">>,
                  <<"debugPrint", "(">>,
                  <<" ", " ", "debugPrint", "(", "x", ")", "x">> >>
    /\ modified_lines =
         << <<"}">>,
            <<"if", " ", "(", "kDebugMode", ")", " ", "{">>,
            <<" ", " ", "debugPrint", "(">>,
            <<" ", " ", " ", " ", "debugPrint", "(", "x", ")", "x">>,
            <<"}">> >>

----------------------------------------------------------------------------
(* C8: for every unguarded call start, whatever the sign of its own        *)
(* balance, the range [i, j) ends where the running balance from line i is *)
(* zero, or at the end of input: j < len(lines) implies the cumulative     *)
(* balance over lines i..j-1 is 0.                                         *)

\* as claimed
C8_ClosedRangeBalanced ==
    \A k \in Wraps :
      hist[k].j < Len(lines) => CumBalance(hist[k].i, hist[k].j - 1) = 0

\* amended: the range ends at the first line where the running balance is
\* zero or negative, or at the end of input
C8_ClosedRangeNonPositive ==
    \A k \in Wraps :
      LET h == hist[k] IN
      /\ h.i < h.j /\ h.j <= Len(lines)
      /\ h.j < Len(lines) => CumBalance(h.i, h.j - 1) <= 0
      /\ \A m \in h.i..(h.j - 2) : CumBalance(h.i, m) > 0

C8_Witness ==
    /\ pc = "done"
    /\ \E k \in Wraps :
         /\ hist[k].j = hist[k].i + 2
         /\ hist[k].j < Len(lines)
         /\ CumBalance(hist[k].i, hist[k].j - 1) < 0
         /\ CumBalance(hist[k].i, hist[k].i) > 0

----------------------------------------------------------------------------
(* C9: after the pass every output line that matches the call-start        *)
(* pattern is immediately preceded in the output by a line that, trimmed,  *)
(* starts with "if (kDebugMode)" or "assert(", and every wrapped call site *)
(* has its guard-opening line directly before its first line and its       *)
(* guard-closing line directly after its last line.                        *)

CallLinesGuarded ==
    \A p \in 1..Len(modified_lines) :
      IsCallStart(modified_lines[p]) =>
        (p > 1 /\ IsGuardLine(modified_lines[p - 1]))

AllCallsGuarded == CallLinesGuarded /\ \A k \in Wraps : Enclosed(hist[k])

\* as claimed
C9_OutputGuarded == pc = "done" => AllCallsGuarded

\* amended: the call-start lines of the output are all guarded provided no
\* continuation line of a wrapped call site is a call start or a guard line;
\* the wrapped call sites are enclosed in every case
C9_OutputGuardedPlainSites ==
    pc = "done" =>
      /\ PlainSites => CallLinesGuarded
      /\ \A k \in Wraps : Enclosed(hist[k])

C9_Witness ==
    /\ pc = "done"
    /\ PlainSites
    /\ Wraps # {}
    /\ \E k \in 1..Len(hist) : hist[k].kind = "guarded"
    /\ AllCallsGuarded

----------------------------------------------------------------------------
(* C6: running the transform on its own output changes nothing:            *)
(* transform(transform(x)) = transform(x) for every input x.               *)

\* as claimed
C6_Idempotent == (run = 2 /\ pc = "done") => file = content

\* amended: for every input whose wrapped call sites have no continuation
\* line that is a call start or a guard line
C6_IdempotentPlainSites ==
    (run >= 2 /\ pc = "done" /\ firstClean) =>
      (file = content /\ modified_lines = lines /\ Wraps = {})

C6_Witness ==
    /\ run = 2
    /\ pc = "done"
    /\ firstClean
    /\ file = content
    /\ Len(lines) = 7
    /\ Cardinality({k \in 1..Len(hist) : hist[k].kind = "guarded"}) = 2

----------------------------------------------------------------------------
(* C10: the pass terminates and is a single forward pass: i grows at every *)
(* outer iteration (by 1 when a line is copied, to j >= i + 1 when a call  *)
(* is wrapped), j grows at every scan step and never exceeds len(lines),   *)
(* every input line is consumed exactly once, and the file is written      *)
(* exactly once, after i has reached len(lines).                           *)

ForwardStep ==
    /\ (pc = "loop" /\ pc' = "loop") => i' = i + 1
    /\ (pc = "scan" /\ pc' = "loop") => (i' = j /\ i' >= i + 1)
    /\ (pc = "loop" /\ pc' = "scan") => (i' = i /\ j' = i + 1)
    /\ (pc = "scan" /\ pc' = "scan") => (i' = i /\ j' = j + 1)
    /\ i' >= i
    /\ j' >= j
    /\ j' <= Len(lines')
    /\ writes' # writes =>
         (writes = 0 /\ writes' = 1 /\ i = Len(lines) /\ pc' = "done")

ConsumedOnce ==
    /\ Len(hist) >= 1
    /\ hist[1].i = 0
    /\ \A k \in 1..Len(hist) : hist[k].i < hist[k].j
    /\ \A k \in 1..(Len(hist) - 1) : hist[k + 1].i = hist[k].j
    /\ hist[Len(hist)].j = Len(lines)

C10_SingleForwardPass ==
    /\ <>(pc = "done")
    /\ [][ForwardStep]_vars
    /\ [](pc = "done" => (writes = 1 /\ i = Len(lines) /\ ConsumedOnce))

C10_Witness ==
    /\ pc = "done"
    /\ writes = 1
    /\ Len(lines) = 3
    /\ Len(hist) = 2
    /\ hist[1].kind = "wrap"
    /\ hist[1].j = 2
    /\ ConsumedOnce

====
